---- MODULE Spec2Model ----
(***************************************************************************)
(* Model of the virtual motor axis of src/axis.py (class Axis).            *)
(*                                                                         *)
(* The axis plans a trapezoidal or triangular velocity profile on move(),  *)
(* truncates it on stop(), and samples it against the wall clock on        *)
(* readPosition() / readStatus().                                          *)
(*                                                                         *)
(* Numbers.  The source is Python 2: "/" between two ints is floor         *)
(* division, every other quotient is a float quotient.  Python ints are    *)
(* TLA+ integers.  A Python float is modelled as a binary fixed-point      *)
(* number: the float x is the integer x * Scale, and every float operation *)
(* rounds its exact result to the nearest representable value, as IEEE     *)
(* arithmetic does with a longer mantissa.  Values with few fractional     *)
(* bits (0.5, 2.5, 999.5) are exact; 1/3 or an irrational square root is   *)
(* not.  A field that holds an int at some times and a float at others     *)
(* (lastPosition, moveDistance, accelDuration, ...) is stored as the float *)
(* of the same value.  currentDisplacement is written and read only inside *)
(* readPosition and is modelled as the local value Displacement(...).      *)
(*                                                                         *)
(* Time.  datetime.datetime.now() is the variable now, counted in ticks of *)
(* 1/TicksPerSec seconds; total_seconds() of a difference of two           *)
(* timestamps is the float (t2 - t1) / TicksPerSec.                        *)
(***************************************************************************)
EXTENDS Integers, Sequences, FiniteSets, TLC

\* ------------------------------------------------------------------ bounds
\* clock ticks per second
TicksPerSec == 1
\* the clock stops at this tick; a move is commanded only if it ends by then
MaxTime == 4
\* number of accepted move() calls in a run
MaxMoves == 2
\* number of rejected move() calls in a run
MaxRejected == 1
\* a float carries 2 * HalfFracBits fractional bits
HalfFracBits == 3

\* ------------------------------------------------------- Python's None
\* moveStartTime / abortTime hold either None or a timestamp (>= 0)
None == -1

\* ---------------------------------------------------------- float arithmetic
SqrtScale == 2 ^ HalfFracBits
Scale == SqrtScale * SqrtScale

RECURSIVE GCD(_, _)
GCD(a, b) == IF b = 0 THEN a ELSE GCD(b, a % b)

IAbs(i) == IF i < 0 THEN -i ELSE i

\* n / d (d > 0) rounded to the nearest integer, ties to even
RoundDiv(n, d) ==
    LET q == n \div d
        r == n % d
    IN  IF 2 * r < d THEN q
        ELSE IF 2 * r > d THEN q + 1
        ELSE IF q % 2 = 0 THEN q ELSE q + 1

\* float(i)
F(i) == i * Scale

\* the float literal n / d
Ratio(n, d) == RoundDiv(n * Scale, d)

\* the float a holds an integral value
IsIntegral(a) == a % Scale = 0

FNeg(a) == -a
FAdd(a, b) == a + b
FSub(a, b) == a - b
\* a * b; the common factor of a and Scale is cancelled before multiplying
FMul(a, b) ==
    LET g == IF a = 0 THEN Scale ELSE GCD(IAbs(a), Scale)
    IN  RoundDiv((a \div g) * b, Scale \div g)
\* float quotient a / b, b # 0; the common factor of b and Scale is cancelled
FDiv(a, b) ==
    LET g == GCD(IAbs(b), Scale)
        s == IF b > 0 THEN 1 ELSE -1
    IN  RoundDiv(s * a * (Scale \div g), s * (b \div g))
FLess(a, b) == a < b
FAbs(a) == IAbs(a)

\* 0.5 * a
Half(a) == FMul(Ratio(1, 2), a)

\* Python 2 int / int: floor division
IntDiv(a, b) == a \div b

\* floor of the square root of a natural number
RECURSIVE ISqrtIter(_, _, _)
ISqrtIter(n, lo, hi) ==
    IF lo >= hi THEN lo
    ELSE LET mid == (lo + hi + 1) \div 2
         IN  IF mid * mid <= n THEN ISqrtIter(n, mid, hi)
             ELSE ISqrtIter(n, lo, mid - 1)

ISqrt(n) == ISqrtIter(n, 0, IF n < 46340 THEN n ELSE 46340)

\* math.sqrt(a), a >= 0: exact when a * Scale is a perfect square, otherwise
\* truncated to a multiple of 1 / SqrtScale
Sqrt(a) == ISqrt(a) * SqrtScale

\* int(round(a)): Python 2 round() rounds halves away from zero
Round(a) ==
    IF a >= 0 THEN (2 * a + Scale) \div (2 * Scale)
    ELSE -((2 * (-a) + Scale) \div (2 * Scale))

\* total_seconds() of the difference of two timestamps
Seconds(t2, t1) == RoundDiv((t2 - t1) * Scale, TicksPerSec)

\* ------------------------------------------------------------------- state
VARIABLES
    now,                \* datetime.datetime.now(), in ticks
    velocity, baseVelocity, acceleration, deceleration,
    highLimit, lowLimit, enforceLimits,
    moveStartTime, abortTime,
    lastPosition, currentPosition,
    targetPosition, direction, moveVelocity,
    accelDuration, accelDistance, decelDuration, decelDistance,
    moveDistance, constVelDuration, decelStartTime, moveDuration,
    status,             \* the status.Status() reporter
    last,               \* history: the last call of move, stop, readPosition
                        \* or readStatus: its name (op), its result (ret),
                        \* whether it took effect (move accepted / stop
                        \* re-planned / readPosition finalized), and whether
                        \* it was a stop() repeated within one move (again)
    stopIssued,         \* history: stop() was called during the latest
                        \* accepted move, while that move was active
    planAcceleration,   \* history: acceleration when the active move was planned
    planDeceleration,   \* history: deceleration when the active move was planned
    moves,              \* history: number of accepted move() calls so far
    rejected            \* history: number of rejected move() calls so far

params == <<velocity, baseVelocity, acceleration, deceleration>>
limits == <<highLimit, lowLimit, enforceLimits>>
positions == <<lastPosition, currentPosition>>
\* the planned profile, as written by move() and rewritten by stop()
profile == <<targetPosition, direction, moveVelocity,
             accelDuration, accelDistance, decelDuration, decelDistance,
             moveDistance, constVelDuration, decelStartTime, moveDuration>>
history == <<last, stopIssued, planAcceleration, planDeceleration, moves,
             rejected>>
\* every field of the Axis object
axis == <<params, limits, moveStartTime, abortTime, positions, profile, status>>
vars == <<now, axis, history>>

\* targets passed to move(): a short move, a longer move to a target that is
\* not an integer, and a target beyond each default limit
Targets == {F(100), Ratio(999, 2), F(50000), F(-50000)}
\* values passed to setVelocity and setAcceleration
Velocities == {600}
Accelerations == {200}
\* baseVelocity has no setter: it is the constructor's 0 or assigned directly
BaseVelocities == {0}

\* ------------------------------------------------------ status.Status()
SetError(s, flag, msg) == [s EXCEPT !.error = flag, !.message = msg]
SetMoving(s) == [s EXCEPT !.doneMoving = FALSE]
SetDoneMoving(s) == [s EXCEPT !.doneMoving = TRUE]

\* ---------------------------------------------------------------- __init__
Init ==
    /\ now = 0
    /\ velocity = 400
    /\ baseVelocity \in BaseVelocities
    /\ acceleration = 400
    /\ deceleration = 400
    /\ highLimit = 40000
    /\ lowLimit = -40000
    /\ enforceLimits \in BOOLEAN
    /\ moveStartTime = None
    /\ abortTime = None
    /\ lastPosition = F(0)
    /\ currentPosition = F(0)
    /\ targetPosition = 0
    /\ direction = 0
    /\ moveVelocity = F(400)
    /\ accelDuration = F(0)
    /\ accelDistance = F(0)
    /\ decelDuration = F(0)
    /\ decelDistance = F(0)
    /\ moveDistance = F(0)
    /\ constVelDuration = F(0)
    /\ decelStartTime = F(0)
    /\ moveDuration = F(0)
    /\ status = [doneMoving |-> TRUE, error |-> FALSE, message |-> ""]
    /\ last = [op |-> "init", ret |-> "OK", effect |-> FALSE, again |-> FALSE]
    /\ stopIssued = FALSE
    /\ planAcceleration = 400
    /\ planDeceleration = 400
    /\ moves = 0
    /\ rejected = 0

\* -------------------------------------------------------------------- move
\* distance covered by a ramp between Vb and peak lasting dur (lines 82, 85, 98)
RampDistance(peak, Vb, dur) ==
    FAdd(FMul(Half(FSub(peak, F(Vb))), dur), FMul(F(Vb), dur))

\* line 89: 2 * A * D * moveDistance / (A + D).  With an int moveDistance
\* this is a floor division of ints; with a float moveDistance the product
\* and the quotient are float operations, exact here up to the one rounding
\* of the result.  A float moveDistance with an integral value takes the
\* first form: acceleration = deceleration in every state (lines 17-18 and
\* 259-260), so the quotient A * moveDistance is exact in both.
PeakVelocity(A, D, dist) ==
    LET g == GCD(2 * A * D, A + D)
    IN  Sqrt(IF IsIntegral(dist)
             THEN F(IntDiv(2 * A * D * (dist \div Scale), A + D))
             ELSE RoundDiv(((2 * A * D) \div g) * dist, (A + D) \div g))

\* variant: the test of line 87 never holds
ShortNever(dist, aDist, dDist) == FALSE

\* line 87: desired speed is never reached
Short(dist, aDist, dDist) == FLess(dist, FAdd(aDist, dDist))

\* the profile computed by lines 59-106 for a move from start to the rounded
\* target tgt
PlanProfile(start, tgt, V, Vb, A, D) ==
    LET dist   == FAbs(FSub(F(tgt), start))
        aDur   == F(IntDiv(V - Vb, A))
        aDist  == RampDistance(F(V), Vb, aDur)
        dDur   == F(IntDiv(V - Vb, D))
        dDist  == RampDistance(F(V), Vb, dDur)
        short  == Short(dist, aDist, dDist)
        peak   == PeakVelocity(A, D, dist)
        taDur  == FDiv(peak, F(A))
        tdDur  == FDiv(FSub(peak, F(Vb)), F(D))
        mv     == IF short THEN peak ELSE F(V)
        aDur2  == IF short THEN taDur ELSE aDur
        aDist2 == IF short THEN FMul(Half(peak), taDur) ELSE aDist
        dDur2  == IF short THEN tdDur ELSE dDur
        dDist2 == IF short THEN RampDistance(peak, Vb, tdDur) ELSE dDist
        cvDur  == IF short THEN F(0)
                  ELSE FDiv(FSub(FSub(dist, aDist), dDist), F(V))
        dStart == FAdd(aDur2, cvDur)
    IN  [targetPosition |-> tgt,
         direction |-> IF FLess(F(tgt), start) THEN -1 ELSE 1,
         moveDistance |-> dist,
         moveVelocity |-> mv,
         accelDuration |-> aDur2, accelDistance |-> aDist2,
         decelDuration |-> dDur2, decelDistance |-> dDist2,
         constVelDuration |-> cvDur,
         decelStartTime |-> dStart,
         moveDuration |-> FAdd(dStart, dDur2)]

\* lines 52, 54: the limit checks, made on the target as passed
ExceedsHigh(target) == enforceLimits /\ FLess(F(highLimit), target)
ExceedsLow(target) == enforceLimits /\ FLess(target, F(lowLimit))

\* the value move() returns (line 122)
MoveResult(isRejected) == "OK"

SetProfile(p) ==
    /\ targetPosition' = p.targetPosition
    /\ direction' = p.direction
    /\ moveVelocity' = p.moveVelocity
    /\ accelDuration' = p.accelDuration
    /\ accelDistance' = p.accelDistance
    /\ decelDuration' = p.decelDuration
    /\ decelDistance' = p.decelDistance
    /\ moveDistance' = p.moveDistance
    /\ constVelDuration' = p.constVelDuration
    /\ decelStartTime' = p.decelStartTime
    /\ moveDuration' = p.moveDuration

\* the model's clock covers the whole of a move planned now with profile p
EndsInTime(p) == FAdd(Seconds(now, 0), p.moveDuration) <= Seconds(MaxTime, 0)

\* a rejected move: the error is reported and no profile is planned
Reject(msg) ==
    /\ rejected < MaxRejected
    /\ rejected' = rejected + 1
    /\ status' = SetError(status, TRUE, msg)
    /\ UNCHANGED <<moveStartTime, profile, stopIssued, planAcceleration,
                   planDeceleration, moves>>

Move(target) ==
    /\ lastPosition' = currentPosition
    /\ IF ExceedsHigh(target)
       THEN Reject("Target position exceeds high limit")
       ELSE IF ExceedsLow(target)
       THEN Reject("Target position exceeds low limit")
       ELSE LET p == PlanProfile(lastPosition', Round(target), velocity,
                                 baseVelocity, acceleration, deceleration)
            IN  /\ moves < MaxMoves
                /\ EndsInTime(p)
                /\ moves' = moves + 1
                /\ moveStartTime' = now
                /\ SetProfile(p)
                /\ stopIssued' = FALSE
                /\ planAcceleration' = acceleration
                /\ planDeceleration' = deceleration
                /\ UNCHANGED <<status, rejected>>
    /\ last' = [op |-> "move",
                ret |-> MoveResult(ExceedsHigh(target) \/ ExceedsLow(target)),
                effect |-> ~(ExceedsHigh(target) \/ ExceedsLow(target)),
                again |-> FALSE]
    /\ UNCHANGED <<now, params, limits, abortTime, currentPosition>>

\* -------------------------------------------------------------------- stop
\* variant: a stop while cruising keeps the planned cruise duration
PlannedCruise(p, e) == p.constVelDuration

\* line 161: the cruise ends at the stop instant
TruncatedCruise(p, e) == FSub(e, p.accelDuration)

\* the profile after a first stop request arriving e seconds into the move
\* (lines 139-170); p is the profile before it
Replan(p, e, Vb, A, D) ==
    IF FLess(e, p.accelDuration)
    THEN \* stop received while accelerating
         LET aDist == FAdd(FMul(Half(F(A)), FMul(e, e)), FMul(F(Vb), e))
             peak  == FAdd(FMul(F(A), e), F(Vb))
             dDur  == FDiv(FSub(peak, F(Vb)), F(D))
             dDist == RampDistance(peak, Vb, dDur)
         IN  [p EXCEPT !.accelDuration = e,
                       !.accelDistance = aDist,
                       !.constVelDuration = F(0),
                       !.decelStartTime = e,
                       !.decelDuration = dDur,
                       !.decelDistance = dDist,
                       !.moveDistance = FAdd(aDist, dDist),
                       !.moveDuration = FAdd(e, dDur),
                       !.moveVelocity = peak]
    ELSE IF FLess(e, p.decelStartTime)
    THEN \* stop received while moving with constant velocity
         LET cvDur == TruncatedCruise(p, e)
         IN  [p EXCEPT !.decelStartTime = e,
                       !.constVelDuration = cvDur,
                       !.moveDistance =
                           FAdd(FAdd(p.accelDistance, FMul(p.moveVelocity, cvDur)),
                                p.decelDistance),
                       !.moveDuration =
                           FAdd(FAdd(p.accelDuration, cvDur), p.decelDuration)]
    ELSE \* while decelerating, or after the move should have been complete
         p

CurrentProfile ==
    [targetPosition |-> targetPosition, direction |-> direction,
     moveDistance |-> moveDistance, moveVelocity |-> moveVelocity,
     accelDuration |-> accelDuration, accelDistance |-> accelDistance,
     decelDuration |-> decelDuration, decelDistance |-> decelDistance,
     constVelDuration |-> constVelDuration,
     decelStartTime |-> decelStartTime, moveDuration |-> moveDuration]

\* variant: the already-stopping test of line 129 never holds
StopNeverInProgress == FALSE

\* line 129: a stop is already in progress
StopInProgress == abortTime # None

Stop ==
    /\ IF moveStartTime = None
       THEN \* motor isn't currently moving
            /\ abortTime' = None
            /\ UNCHANGED profile
       ELSE IF StopInProgress
       THEN UNCHANGED <<abortTime, profile>>
       ELSE \* motor is moving, this is the first stop request
            /\ abortTime' = now
            /\ SetProfile(Replan(CurrentProfile, Seconds(now, moveStartTime),
                                 baseVelocity, acceleration, deceleration))
    /\ last' = [op |-> "stop", ret |-> "OK",
                effect |-> moveStartTime # None /\ ~StopInProgress,
                again |-> moveStartTime # None /\ stopIssued]
    /\ stopIssued' = (stopIssued \/ moveStartTime # None)
    /\ UNCHANGED <<now, params, limits, moveStartTime, positions, status,
                   planAcceleration, planDeceleration, moves, rejected>>

\* ------------------------------------------------------------ readPosition
\* lines 190 and 193: the displacement while accelerating
AccelPhase(t, Vb, A) ==
    FAdd(FMul(F(Vb), t), FMul(Half(F(A)), FMul(t, t)))

\* lines 190, 196 and 200: the displacement while cruising
CruisePhase(p, t, Vb) ==
    FAdd(FAdd(FMul(F(Vb), t), FMul(Half(p.moveVelocity), p.accelDuration)),
         FMul(p.moveVelocity, FSub(t, p.accelDuration)))

\* lines 190, 196 and 203: the displacement left once the move is done
DonePhase(p, t, Vb) ==
    FAdd(FAdd(FMul(F(Vb), t), FMul(Half(p.moveVelocity), p.accelDuration)),
         FMul(p.moveVelocity, p.constVelDuration))

\* lines 190, 196, 203 and 207: the displacement while decelerating
DecelPhase(p, t, Vb, D) ==
    LET td == FSub(t, p.decelStartTime)
    IN  FAdd(DonePhase(p, t, Vb),
             FMul(FSub(p.moveVelocity, FMul(Half(F(D)), td)), td))

\* lines 190-210: the displacement t seconds into profile p
Displacement(p, t, Vb, A, D) ==
    IF FLess(t, p.accelDuration) THEN AccelPhase(t, Vb, A)
    ELSE IF FLess(t, p.decelStartTime) THEN CruisePhase(p, t, Vb)
    ELSE IF FLess(t, p.moveDuration) THEN DecelPhase(p, t, Vb, D)
    ELSE DonePhase(p, t, Vb)

\* lines 187-209: moveFlag, cleared only when no phase of the profile holds
MoveFlag(p, t) ==
    \/ FLess(t, p.accelDuration)
    \/ FLess(t, p.decelStartTime)
    \/ FLess(t, p.moveDuration)

\* lines 215-219: the position a finished move is committed at
FinalPosition ==
    IF abortTime = None THEN F(targetPosition)
    ELSE FAdd(lastPosition, FMul(F(direction), moveDistance))

\* variant: finalization keeps moveStartTime
KeepMoveStartTime == moveStartTime

\* line 221: what finalization leaves in moveStartTime
FinalMoveStartTime == None

\* variant: finalization keeps abortTime
KeepAbortTime == abortTime

\* line 219: what finalization leaves in abortTime
FinalAbortTime == None

\* lines 211-212: the position of an axis that is still moving
MovingPosition ==
    FAdd(lastPosition,
         FMul(F(direction),
              Displacement(CurrentProfile, Seconds(now, moveStartTime),
                           baseVelocity, acceleration, deceleration)))

ReadPosition ==
    /\ \/ \* line 176 false: no active profile
          /\ moveStartTime = None
          /\ UNCHANGED <<moveStartTime, abortTime, positions, stopIssued>>
          /\ last' = [op |-> "readPosition", ret |-> Round(currentPosition),
                      effect |-> FALSE, again |-> FALSE]
       \/ \* line 211: still moving
          /\ moveStartTime # None
          /\ MoveFlag(CurrentProfile, Seconds(now, moveStartTime))
          /\ currentPosition' = MovingPosition
          /\ UNCHANGED <<lastPosition, moveStartTime, abortTime, stopIssued>>
          /\ last' = [op |-> "readPosition", ret |-> Round(MovingPosition),
                      effect |-> FALSE, again |-> FALSE]
       \/ \* lines 213-221: the move is over
          /\ moveStartTime # None
          /\ ~MoveFlag(CurrentProfile, Seconds(now, moveStartTime))
          /\ currentPosition' = FinalPosition
          /\ abortTime' = FinalAbortTime
          /\ lastPosition' = FinalPosition
          /\ moveStartTime' = FinalMoveStartTime
          /\ UNCHANGED stopIssued
          /\ last' = [op |-> "readPosition", ret |-> Round(FinalPosition),
                      effect |-> TRUE, again |-> FALSE]
    /\ UNCHANGED <<now, params, limits, profile, status,
                   planAcceleration, planDeceleration, moves, rejected>>

\* -------------------------------------------------------------- readStatus
\* variant: line 242 with <= in place of <
InProgressInclusive(t, duration) == t <= duration

\* line 242: the move is in progress t seconds after it began
InProgress(t, duration) == FLess(t, duration)

ReadStatus ==
    /\ status' = IF moveStartTime = None THEN SetDoneMoving(status)
                 ELSE IF InProgress(Seconds(now, moveStartTime), moveDuration)
                 THEN SetMoving(status)
                 ELSE SetDoneMoving(status)
    /\ last' = [op |-> "readStatus", ret |-> status'.doneMoving,
                effect |-> FALSE, again |-> FALSE]
    /\ UNCHANGED <<now, params, limits, moveStartTime, abortTime, positions,
                   profile, stopIssued, planAcceleration, planDeceleration, moves, rejected>>

\* ----------------------------------------------------------------- setters
SetVelocity(v) ==
    /\ velocity' = v
    /\ UNCHANGED <<now, baseVelocity, acceleration, deceleration, limits,
                   moveStartTime, abortTime, positions, profile, status,
                   history>>

SetAcceleration(a) ==
    /\ acceleration' = a
    /\ deceleration' = a
    /\ UNCHANGED <<now, velocity, baseVelocity, limits,
                   moveStartTime, abortTime, positions, profile, status,
                   history>>

\* ------------------------------------------------------------------- clock
Tick ==
    /\ now < MaxTime
    /\ now' = now + 1
    /\ UNCHANGED <<axis, history>>

\* ---------------------------------------------------------- specification
Next ==
    \/ \E target \in Targets : Move(target)
    \/ Stop
    \/ ReadPosition
    \/ ReadStatus
    \/ \E v \in Velocities : SetVelocity(v)
    \/ \E a \in Accelerations : SetAcceleration(a)
    \/ Tick

Spec == Init /\ [][Next]_vars

\* ------------------------------------------- an axis configured before use
\* lines 26-47: the fields of a new axis other than its parameters and limits
Unused ==
    /\ now = 0
    /\ moveStartTime = None
    /\ abortTime = None
    /\ lastPosition = F(0)
    /\ currentPosition = F(0)
    /\ targetPosition = 0
    /\ direction = 0
    /\ accelDuration = F(0)
    /\ accelDistance = F(0)
    /\ decelDuration = F(0)
    /\ decelDistance = F(0)
    /\ moveDistance = F(0)
    /\ constVelDuration = F(0)
    /\ decelStartTime = F(0)
    /\ moveDuration = F(0)
    /\ status = [doneMoving |-> TRUE, error |-> FALSE, message |-> ""]
    /\ last = [op |-> "init", ret |-> "OK", effect |-> FALSE, again |-> FALSE]
    /\ stopIssued = FALSE
    /\ moves = 0
    /\ rejected = 0

\* parameters given to the axis before its first move: velocity through
\* setVelocity, acceleration and deceleration through setAcceleration,
\* baseVelocity (which has no setter) by assignment to the attribute
PlanVelocities == {400, 600}
PlanBaseVelocities == {0, 200}
PlanAccelerations == {200, 400}
\* targets of the moves of a configured axis
PlanTargets == {F(100), F(300), F(1000), F(-1000)}

PlanInit ==
    /\ Unused
    /\ velocity \in PlanVelocities
    /\ baseVelocity \in PlanBaseVelocities
    /\ acceleration \in PlanAccelerations
    /\ deceleration = acceleration
    /\ moveVelocity = F(400)
    /\ highLimit = 40000
    /\ lowLimit = -40000
    /\ enforceLimits = FALSE
    /\ planAcceleration = acceleration
    /\ planDeceleration = deceleration

\* the caller commands a move only when the axis is at rest
PlanNext ==
    \/ \E target \in PlanTargets : moveStartTime = None /\ Move(target)
    \/ Stop
    \/ ReadPosition
    \/ ReadStatus
    \/ \E a \in PlanAccelerations : SetAcceleration(a)
    \/ Tick

PlanSpec == PlanInit /\ [][PlanNext]_vars

\* limits given through setHighLimit / setLowLimit before the first move
\* (lines 270 and 277), with limit enforcement switched on
SoftHighLimit == Round(F(600))
SoftLowLimit == Round(F(-600))

LimitInit ==
    /\ Unused
    /\ velocity = 400
    /\ baseVelocity = 0
    /\ acceleration = 400
    /\ deceleration = 400
    /\ moveVelocity = F(400)
    /\ highLimit = SoftHighLimit
    /\ lowLimit = SoftLowLimit
    /\ enforceLimits = TRUE
    /\ planAcceleration = acceleration
    /\ planDeceleration = deceleration

\* the caller only moves, stops and polls
LimitNext ==
    \/ \E target \in Targets : Move(target)
    \/ Stop
    \/ ReadPosition
    \/ ReadStatus
    \/ Tick

LimitSpec == LimitInit /\ [][LimitNext]_vars

TypeOK ==
    /\ now \in 0..MaxTime
    /\ moveStartTime \in {None} \cup (0..MaxTime)
    /\ abortTime \in {None} \cup (0..MaxTime)
    /\ direction \in {-1, 0, 1}
    /\ stopIssued \in BOOLEAN

\* ------------------------------------------------------------- properties
Active == moveStartTime # None
\* seconds since the active move began
Elapsed == Seconds(now, moveStartTime)
\* the step is a rejected move()
RejectedMove == (\E target \in Targets : Move(target)) /\ rejected' = rejected + 1
\* the step is a readPosition() that finalizes the active move
Finalizing == ReadPosition /\ moveStartTime # None /\ moveStartTime' = None

\* C1: a move rejected for a limit violation leaves lastPosition and every
\* field of the active profile unchanged, and sets the error on the reporter.
C1_RejectedMoveChangesNothing ==
    [][RejectedMove =>
          /\ lastPosition' = lastPosition
          /\ UNCHANGED <<moveStartTime, abortTime, profile>>
          /\ status'.error]_vars

\* C2: when a move for which no stop() was issued is finalized, readPosition
\* returns exactly the rounded target; a readPosition at rest returns the
\* same value again and changes no field of the axis.
C2_ExactArrival ==
    [][/\ (Finalizing /\ ~stopIssued) => last'.ret = targetPosition
       /\ (ReadPosition /\ moveStartTime = None) =>
              (UNCHANGED axis /\ last'.ret = Round(currentPosition))]_vars

\* C3: a stop() issued during a move for which stop() was already issued
\* leaves every profile field, abortTime and moveStartTime as they were.
C3_StopIdempotent ==
    [][(Stop /\ moveStartTime # None /\ stopIssued) =>
          UNCHANGED <<profile, abortTime, moveStartTime>>]_vars

C3_Witness ==
    /\ last.op = "stop" /\ last.again
    /\ moveStartTime # None /\ abortTime # None /\ abortTime < now

\* C4: immediately after an accepted move(), abortTime is unset.
C4_MoveClearsAbort == (last.op = "move" /\ last.effect) => abortTime = None

\* the position readPosition() computes now for the active move when the
\* accel and decel phases are sampled with acceleration A and deceleration D
PositionWith(A, D) ==
    IF MoveFlag(CurrentProfile, Elapsed)
    THEN FAdd(lastPosition,
              FMul(F(direction),
                   Displacement(CurrentProfile, Elapsed, baseVelocity, A, D)))
    ELSE FinalPosition

\* C5: while a move that was not re-planned by stop() is in progress,
\* readPosition returns what the parameters the move was planned with give,
\* whatever setVelocity / setAcceleration calls were made since, and the
\* setters leave moveDuration unchanged.
C5_SettersDoNotAffectMove ==
    [][/\ (ReadPosition /\ moveStartTime # None /\ ~stopIssued) =>
              last'.ret = Round(PositionWith(planAcceleration, planDeceleration))
       /\ ((\E v \in Velocities : SetVelocity(v))
           \/ (\E a \in Accelerations : SetAcceleration(a))) =>
              UNCHANGED <<moveDuration, moveStartTime>>]_vars

\* C6: lastPosition changes only in the readPosition() that finalizes a move.
C6_CommittedOnlyAtCompletion ==
    [][lastPosition' # lastPosition => Finalizing]_vars

\* C7: readStatus reports moving exactly when a profile is active and less
\* than moveDuration has elapsed, and changes neither the positions, nor
\* moveStartTime, abortTime or any profile field.
C7_ReadStatusPure ==
    [][ReadStatus =>
          /\ status'.doneMoving = ~(Active /\ FLess(Elapsed, moveDuration))
          /\ last'.ret = status'.doneMoving
          /\ UNCHANGED <<positions, moveStartTime, abortTime, profile>>]_vars

C7_Witness ==
    /\ last.op = "readStatus" /\ last.ret
    /\ Active /\ ~FLess(Elapsed, moveDuration) /\ FLess(F(0), moveDuration)

\* C8: stop() with no active profile changes no field of the axis (so
\* abortTime is unset in every state with no active profile).
C8_StopAtRestNoOp ==
    [][(Stop /\ moveStartTime = None) => UNCHANGED axis]_vars

C8_Witness ==
    /\ last.op = "stop" /\ ~last.effect
    /\ moveStartTime = None /\ stopIssued

\* C9: the value move() returns when it rejects the target differs from the
\* value it returns when it accepts it.
C9_RejectionVisibleInResult ==
    (last.op = "move" /\ ~last.effect) => last.ret # MoveResult(FALSE)

\* C10: an active move is eventually finalized, leaving moveStartTime and
\* abortTime unset, when the clock keeps advancing and the caller keeps
\* polling readPosition; once moveDuration has elapsed readStatus reports done.
C10_MoveCompletes ==
    /\ Active ~> (moveStartTime = None /\ abortTime = None)
    /\ [][(ReadStatus /\ Active /\ ~FLess(Elapsed, moveDuration)) =>
             status'.doneMoving]_vars

C10_Witness ==
    /\ last.op = "readPosition" /\ last.effect
    /\ moveStartTime = None /\ abortTime = None /\ stopIssued

\* a and b agree up to the rounding of the float model: less than the
\* distance covered at full speed in one unit of the time resolution
Close(a, b) == IAbs(a - b) * SqrtScale < F(velocity)
\* the step is an accepted move()
AcceptedMove ==
    /\ \E target \in Targets \cup PlanTargets : Move(target)
    /\ moves' = moves + 1
\* the step is the first stop() of an active move
FirstStop == Stop /\ Active /\ abortTime = None

\* C11: in every planned profile the accel and cruise formulas agree at
\* t = accelDuration, the cruise and decel formulas agree at
\* t = decelStartTime, and the decel formula gives moveDistance at
\* t = moveDuration.
PhasesAgree ==
        LET p == CurrentProfile
        IN  /\ Close(AccelPhase(accelDuration, baseVelocity, acceleration),
                     CruisePhase(p, accelDuration, baseVelocity))
            /\ Close(CruisePhase(p, decelStartTime, baseVelocity),
                     DecelPhase(p, decelStartTime, baseVelocity, deceleration))
            /\ Close(DecelPhase(p, moveDuration, baseVelocity, deceleration),
                     moveDistance)

C11_DisplacementContinuous == [][AcceptedMove => PhasesAgree']_vars

\* accelDistance + decelDistance of the full-speed profile (lines 81-85)
FullSpeedRamps ==
    FAdd(RampDistance(F(velocity), baseVelocity,
                      F(IntDiv(velocity - baseVelocity, acceleration))),
         RampDistance(F(velocity), baseVelocity,
                      F(IntDiv(velocity - baseVelocity, deceleration))))

\* C12: an accepted move plans the triangular profile (constVelDuration = 0,
\* moveVelocity = the peak velocity) exactly when moveDistance is less than
\* the full-speed accelDistance + decelDistance, the trapezoidal one with
\* moveVelocity = V otherwise, and moveVelocity never exceeds V.
TriangularIffShort ==
        /\ FLess(moveDistance, FullSpeedRamps) =>
               /\ constVelDuration = F(0)
               /\ moveVelocity = PeakVelocity(acceleration, deceleration,
                                              moveDistance)
               /\ FLess(moveVelocity, F(velocity))
        /\ ~FLess(moveDistance, FullSpeedRamps) =>
               /\ moveVelocity = F(velocity)
               /\ ~FLess(constVelDuration, F(0))
        /\ ~FLess(F(velocity), moveVelocity)

PhaseDistances ==
    FAdd(FAdd(accelDistance, FMul(moveVelocity, constVelDuration)),
         decelDistance)

C13_PhaseDistancesSum ==
    [][(AcceptedMove \/ FirstStop) =>
          Close(PhaseDistances', moveDistance')]_vars

C15_StaleStopNoOp ==
    [][(Stop /\ Active /\ ~FLess(Elapsed, moveDuration)) =>
          UNCHANGED <<abortTime, profile>>]_vars

\* the clock readings up to the present, in seconds since the move began
TimesSoFar == {Seconds(k, moveStartTime) : k \in moveStartTime..now}

\* C16: a first stop() at elapsed time e leaves the displacement that
\* readPosition computes for e, and for every earlier time, unchanged.
C16_ReplanContinuous ==
    [][FirstStop =>
          \A t \in TimesSoFar :
              Close(Displacement(CurrentProfile', t, baseVelocity,
                                 acceleration, deceleration),
                    Displacement(CurrentProfile, t, baseVelocity,
                                 acceleration, deceleration))]_vars

\* C17: no stop() lengthens moveDistance or moveDuration, and a stop() in
\* the deceleration phase changes neither.
C17_StopOnlyShortens ==
    [][Stop =>
          /\ ~FLess(moveDistance, moveDistance')
          /\ ~FLess(moveDuration, moveDuration')
          /\ (Active /\ ~FLess(Elapsed, decelStartTime)
                     /\ FLess(Elapsed, moveDuration)) =>
                 UNCHANGED <<moveDistance, moveDuration, targetPosition>>]_vars

\* C18: a move planned at full speed has accelDuration = (V - Vb) / A and
\* decelDuration = (V - Vb) / D exactly, and accelDistance / decelDistance
\* derived from these.
ExactRamps ==
    moveVelocity = F(velocity) =>
        /\ accelDuration = FDiv(F(velocity - baseVelocity), F(acceleration))
        /\ decelDuration = FDiv(F(velocity - baseVelocity), F(deceleration))
        /\ accelDistance =
               RampDistance(F(velocity), baseVelocity,
                            FDiv(F(velocity - baseVelocity), F(acceleration)))
        /\ decelDistance =
               RampDistance(F(velocity), baseVelocity,
                            FDiv(F(velocity - baseVelocity), F(deceleration)))

C18_ExactRampDurations == [][AcceptedMove => ExactRamps']_vars

\* C19: with the limits enforced and base velocity 0, every value
\* readPosition returns lies within [lowLimit, highLimit].
C19_ReadPositionWithinLimits ==
    (last.op = "readPosition" /\ enforceLimits /\ baseVelocity = 0) =>
        (lowLimit <= last.ret /\ last.ret <= highLimit)

\* C20: during a move accepted from rest with base velocity 0 and no further
\* move command, each value readPosition returns is not behind the previous
\* one (or the start position) and lies between the start position and the
\* rounded target.
C20_NoOvershoot ==
    [][(ReadPosition /\ Active /\ baseVelocity = 0) =>
          /\ direction * last'.ret >= direction * Round(currentPosition)
          /\ direction * last'.ret >= direction * Round(lastPosition)
          /\ direction * last'.ret <= direction * targetPosition]_vars

\* a readPosition() issued once every phase of the active profile is over
PollAfterEnd == Active /\ ~MoveFlag(CurrentProfile, Elapsed) /\ ReadPosition

\* the clock keeps advancing, and a caller that keeps polling readPosition
\* eventually polls after the end of the profile
FairSpec == Spec /\ WF_vars(Tick) /\ WF_vars(PollAfterEnd)


====
